---- MODULE Spec2Model ----
(***************************************************************************)
(* Model of src/src/controller.py: run_game, the session orchestrator that *)
(* creates a network, builds and launches one server and N clients, sends  *)
(* the start signal, polls the server   until it stops and then removes the  *)
(* containers, the images and the network.                                 *)
(*                                                                         *)
(* The container engine and the working directory are shared state; each   *)
(* session (one call of run_game, identified by its game_secret) walks     *)
(* through the statements of run_game one engine or filesystem call at a   *)
(* time.  Every engine call may answer with docker.errors.APIError.        *)
(***************************************************************************)
EXTENDS Integers, Sequences, FiniteSets, TLC

\* ------------------------------------------------------------------ bounds
\* Longest client roster of a session under Spec.
MaxClients == 2
\* Longest client roster of a session when two sessions run concurrently.
MaxConcClients == 1
\* The count of reload() calls saturates here (the loop itself is not bounded).
MaxReloads == 3

\* ------------------------------------------------------------- value sets
\* game_secret values (secrets.token_urlsafe(8).lower()), one per session.
Tokens == {"t1", "t2"}
\* client["id"] values of roster entries.
ClientIds == {"a", "b"}
\* Owner of what an earlier match left on the host.
Prior == "prior"
None == "None"
\* No object yet: a name is a tuple, an image object a record.
NoName == <<>>
NoImage == [id |-> <<>>, tag |-> <<>>]
NoTag == <<"<none>">>
\* No clearing loop under way.
NoListing == [todo |-> {}, cur |-> <<>>]

RECURSIVE SeqsUpTo(_, _)
SeqsUpTo(S, n) ==
    IF n = 0 THEN {<<>>}
    ELSE LET shorter == SeqsUpTo(S, n - 1)
         IN  shorter \cup {Append(q, x) : q \in {r \in shorter : Len(r) = n - 1}, x \in S}

Range(q) == {q[j] : j \in DOMAIN q}

\* ------------------------------------------------------------------ names
\* f-strings are modelled as the tuple of their literal and interpolated parts.
NetworkName(game_secret) == <<"cq_network_", game_secret>>
ServerImageName(game_secret) == <<"cq_server_image_", game_secret>>
ServerContainerName(game_secret) == <<"cq_server_", game_secret>>
ClientImageName(client_id, game_secret) == <<"cq_client_image_", client_id, "_", game_secret>>
ClientContainerName(client_index, game_secret) ==
    <<"cq_client_", ToString(client_index), "_", game_secret>>
VolumeName == <<"cq-game-replay">>
\* A replay file the server of a match writes into live_replay_files.
ReplayFileName(owner) == <<"replay_", owner>>
\* A sub-directory the server of a match makes in live_replay_files.
ReplayDirName(owner) == <<"match_", owner, "/">>
\* The files start_server and start_client stage in the working directory,
\* under the names their os.remove calls use.
ServerDockerFile == "server_docker_file"
ClientDockerFile == "client_docker_file"
TempSidecarArgsFile == "_temp_sidecar_args_file"
\* config.server_docker_file and config.client_docker_file, the names the
\* recipes are written and built under: the staged files are the ones removed.
ConfigServerDockerFile == ServerDockerFile
ConfigClientDockerFile == ClientDockerFile
FileNames == {ServerDockerFile, ClientDockerFile, TempSidecarArgsFile}

\* The name contains the token as one of its interpolated parts.
Contains(name, tok) == \E j \in DOMAIN name : name[j] = tok

\* images.build(...)[0]: the image object (id and the tag it was built with).
\* Every build yields an image of its own.
ServerImageObject(game_secret) ==
    [id |-> <<"image", "server", game_secret>>, tag |-> ServerImageName(game_secret)]
ClientImageObject(client_index, client_id, game_secret) ==
    [id |-> <<"image", ToString(client_index), game_secret>>,
     tag |-> ClientImageName(client_id, game_secret)]

VARIABLES
    \* --- the sessions on this host
    sessions,          \* the game_secrets of the run_game calls
    clients,           \* clients[s]: the roster (sequence of client ids)
    pc,                \* pc[s]: the statement of run_game the session is at
    \* --- run_game's local variables
    network,           \* network[s]: name of the Network object, or NoName
    server_container,  \* name of the server Container object, or NoName
    server_image,      \* server image object, or NoImage
    client_containers, \* sequence of client container names
    client_images,     \* sequence of client image objects
    status,            \* server_container.status as last loaded
    k,                 \* position of the teardown loops
    listing,           \* the clearing loop of a folder: names still to do, name in hand
    \* --- the engine and the working directory
    networks,          \* set of [name, owner]
    images,            \* set of [id, tag, owner]
    containers,        \* set of [name, owner, st, net, ports, mounts]
    volumes,           \* set of [name, owner]
    files,             \* files[f]: who wrote the staged file f, or None
    logDir,            \* container_logs: whether it exists, its files [name, owner, captured]
    replayDir,         \* live_replay_files: whether it exists, the names of its files,
                       \* its sub-directories (name, whether anything is in it)
    faulty,            \* calls may fail by themselves (APIError of the engine, log bytes
                       \* that are not UTF-8)
    intact,            \* intact[s]: nobody else has removed a resource of s
    debug,             \* config.debug (--debug on the command line)
    \* --- history
    created,           \* created[s]: names of engine resources s created
    attempted,         \* attempted[s]: names whose removal s has attempted
    signalCalls,       \* calls of send_game_started_signal_to_server
    reloads,           \* calls of server_container.reload() (saturating)
    errors,            \* errors[s]: the failures raised or logged
    actor              \* who took the last step

prog == <<network, server_container, server_image, client_containers, client_images, status, k,
          listing>>
eng == <<networks, images, containers, volumes, files, logDir, replayDir>>
env == <<sessions, clients, faulty, intact, debug>>
hist == <<created, attempted, signalCalls, reloads, errors>>
vars == <<env, pc, prog, eng, hist, actor>>

\* ------------------------------------------------------------------- Init
Rosters(n) == SeqsUpTo(ClientIds, n)
\* Rosters of concurrent sessions, of MaxConcClients clients each: which ids
\* they hold makes no difference between sessions, whose names all carry their
\* own token.
ConcRosters == {r \in SeqsUpTo({"a"}, MaxConcClients) : Len(r) = MaxConcClients}

\* The host before the sessions start: nothing of theirs exists; an earlier
\* match may have left the replay volume, the replay folder and its logs.
InitWith(S, R, Left, Faulty, Debug) ==
    /\ sessions = S
    /\ faulty = Faulty
    /\ intact = [t \in Tokens |-> TRUE]
    /\ debug \in Debug
    /\ clients \in {f \in [Tokens -> R] : \A t \in Tokens \ S : f[t] = <<>>}
    /\ pc = [t \in Tokens |-> "create_network"]
    /\ network = [t \in Tokens |-> NoName]
    /\ server_container = [t \in Tokens |-> NoName]
    /\ server_image = [t \in Tokens |-> NoImage]
    /\ client_containers = [t \in Tokens |-> <<>>]
    /\ client_images = [t \in Tokens |-> <<>>]
    /\ status = [t \in Tokens |-> None]
    /\ k = [t \in Tokens |-> 1]
    /\ listing = [t \in Tokens |-> NoListing]
    /\ networks = {}
    /\ images = {}
    /\ containers = {}
    /\ files = [f \in FileNames |-> None]
    /\ \E left \in Left :
         /\ volumes = IF left THEN {[name |-> VolumeName, owner |-> Prior]} ELSE {}
         /\ replayDir = [exists |-> left,
                          files |-> IF left THEN {ReplayFileName(Prior)} ELSE {},
                          dirs |-> IF left THEN {[name |-> ReplayDirName(Prior), full |-> TRUE]}
                                           ELSE {}]
         /\ logDir = [exists |-> left,
                       files |-> IF left
                                 THEN {[name |-> ServerContainerName(Prior), owner |-> Prior,
                                        captured |-> TRUE]}
                                 ELSE {}]
    /\ created = [t \in Tokens |-> {}]
    /\ attempted = [t \in Tokens |-> {}]
    /\ signalCalls = [t \in Tokens |-> 0]
    /\ reloads = [t \in Tokens |-> 0]
    /\ errors = [t \in Tokens |-> {}]
    /\ actor = None

\* One session; the engine may fail any call.
Init == InitWith({"t1"}, Rosters(MaxClients), BOOLEAN, TRUE, BOOLEAN)
\* Two sessions on a clean host, not in debug mode; the engine fails no call of
\* its own, so every failure is one the other session caused.
InitConc == InitWith(Tokens, ConcRosters, {FALSE}, FALSE, {FALSE})

\* ---------------------------------------------------------------- helpers
\* What an engine call can answer.
EngineFailures == IF faulty THEN {"APIError"} ELSE {}
EngineOutcomes == {"ok"} \cup EngineFailures

\* docker.errors.NotFound (a subclass of APIError): the object of the call is
\* not in the engine any more.
ContainerOutcomes(name) ==
    IF \E c \in containers : c.name = name THEN EngineOutcomes ELSE {"NotFound"}
NetworkOutcomes(name) ==
    IF ~ \E n \in networks : n.name = name THEN {"NotFound"}
    ELSE IF \E c \in containers : c.net = name THEN {"APIError"}
    ELSE EngineOutcomes

\* An exception nothing in run_game catches ends the call.
Uncaught == "raised"
Ended(s) == pc[s] \in {"done", "raised"}

\* Mutant: the loop stops one client short.
NextClientPcOffByOne(n, roster) == IF n + 1 < Len(roster) THEN "client_write" ELSE "signal"
\* The for loop of run_game: the next client, or on to the start signal.
NextClientPc(n, roster) == IF n < Len(roster) THEN "client_write" ELSE "signal"

\* Mutant: the wait is entered whether or not the exec failed.
AfterSignalAlwaysWait(out) == "reload"
\* try/except APIError/else around send_game_started_signal_to_server.
AfterSignal(out) == IF out = "ok" THEN "reload" ELSE "td_logdir"

\* Mutant: the loop test lets a running server through.
WhileNextNoLoop(st) == "td_logdir"
\* while server_container.status == "running"
WhileNext(st) == IF st = "running" THEN "sleep" ELSE "td_logdir"

\* Mutant: the loop over the containers stops after the first.
AfterContainerFirstOnly(j, n) == "td_images"
\* for container in containers: ...; then remove_images
AfterContainer(j, n) == IF j < n THEN "td_open" ELSE "td_images"

\* Mutant: the removals of remove_images go on to the network after the first.
AfterImageFirstOnly(j, n) == "td_network"
\* for image in images: ...; then network.remove()
AfterImage(j, n) == IF j < n THEN "td_images" ELSE "td_network"
\* except APIError as e: log(...) -- NotFound is an APIError
ContainerErrorCaught(out) == out \in {"APIError", "NotFound"}

\* except ImageNotFound: pass -- any other APIError leaves remove_images
ImageRemoveCaught(out) == out = "ImageNotFound"

\* The arguments of write_logs_and_remove_containers and remove_images.
TdContainers(s) == <<server_container[s]>> \o client_containers[s]
TdImages(s) == <<server_image[s]>> \o client_images[s]

\* A failure: the call, the participant it was made for, the exception.
Err(op, who, err) == [op |-> op, who |-> who, err |-> err]
ClientWho(client_index) == "client" \o ToString(client_index)

\* Session s is one of the running calls and is at statement l.
At(s, l) == s \in sessions /\ pc[s] = l
\* Session s moves to statement l: the step is s's.
Goto(s, l) == pc' = [pc EXCEPT ![s] = l] /\ actor' = s
Log(s, e) == errors' = [errors EXCEPT ![s] = @ \cup {e}]
Raise(s, e) == Goto(s, Uncaught) /\ Log(s, e)
Created(s, n) == created' = [created EXCEPT ![s] = @ \cup {n}]
Attempt(s, n) == attempted' = [attempted EXCEPT ![s] = @ \cup {n}]

\* images.build(tag=t): the new image takes the tag from any image holding it.
Build(imgs, obj, s) ==
    {IF x.tag = obj.tag THEN [x EXCEPT !.tag = NoTag] ELSE x : x \in {y \in imgs : y.id # obj.id}}
        \cup {[id |-> obj.id, tag |-> obj.tag, owner |-> s]}

ServerRunning(s) ==
    \E c \in containers : c.name = server_container[s] /\ c.st = "running"
ActualStatus(name) ==
    IF \E c \in containers : c.name = name
    THEN (CHOOSE c \in containers : c.name = name).st
    ELSE None

\* Mutant: the refresh reports "exited" as soon as any container of the
\* session has stopped.
ReloadedStatusOfAll(s) ==
    IF \A n \in Range(TdContainers(s)) : ActualStatus(n) = "running" THEN "running" ELSE "exited"
\* server_container.reload(): the state of the server's container in the engine
ReloadedStatus(s) == ActualStatus(server_container[s])

\* ------------------------------------------------------ run_game: build-up
\* network = create_network(docker_client, game_secret)
CreateNetwork(s) ==
    /\ At(s, "create_network")
    /\ \E out \in EngineOutcomes :
         IF out = "ok"
         THEN /\ networks' = networks \cup {[name |-> NetworkName(s), owner |-> s]}
              /\ network' = [network EXCEPT ![s] = NetworkName(s)]
              /\ Created(s, NetworkName(s))
              /\ Goto(s, "server_write")
              /\ UNCHANGED <<errors>>
         ELSE /\ Raise(s, Err("networks.create", "session", out))
              /\ UNCHANGED <<networks, network, created>>
    /\ UNCHANGED <<env, server_container, server_image, client_containers,
                   client_images, status, k, listing, images, containers, volumes, files,
                   logDir, replayDir, attempted, signalCalls, reloads>>

\* start_server: with open(config.server_docker_file, "w") as f: ...
ServerWriteDockerfile(s) ==
    /\ At(s, "server_write")
    /\ files' = [files EXCEPT ![ConfigServerDockerFile] = s]
    /\ Goto(s, "server_build")
    /\ UNCHANGED <<env, prog, networks, images, containers, volumes, logDir,
                   replayDir, hist>>

\* start_server: docker_client.images.build(dockerfile=config.server_docker_file,
\* tag=server_image_name)[0]
ServerBuild(s) ==
    /\ At(s, "server_build")
    /\ \E out \in IF files[ConfigServerDockerFile] = None THEN {"APIError"} ELSE EngineOutcomes :
         IF out = "ok"
         THEN /\ images' = Build(images, ServerImageObject(s), s)
              /\ Created(s, ServerImageName(s))
              /\ Goto(s, "server_rm")
              /\ UNCHANGED <<errors>>
         ELSE /\ Raise(s, Err("images.build", "server", out))
              /\ UNCHANGED <<images, created>>
    /\ UNCHANGED <<env, prog, networks, containers, volumes, files, logDir,
                   replayDir, attempted, signalCalls, reloads>>

\* start_server: os.remove("server_docker_file")
ServerRemoveDockerfile(s) ==
    /\ At(s, "server_rm")
    /\ IF files[ServerDockerFile] = None
       THEN /\ Raise(s, Err("os.remove", "server", "FileNotFoundError"))
            /\ UNCHANGED <<files>>
       ELSE /\ files' = [files EXCEPT ![ServerDockerFile] = None]
            /\ Goto(s, "volume_get")
            /\ UNCHANGED <<errors>>
    /\ UNCHANGED <<env, prog, networks, images, containers, volumes, logDir,
                   replayDir, created, attempted, signalCalls, reloads>>

\* ensure_empty_volume_exists: volume = docker_client.volumes.get(volume_name)
\* (except NotFound: pass -- any other APIError leaves start_server)
VolumeGet(s) ==
    /\ At(s, "volume_get")
    /\ \E out \in (IF \E v \in volumes : v.name = VolumeName THEN {"ok"} ELSE {"NotFound"})
                      \cup EngineFailures :
         IF out = "ok" THEN Goto(s, "volume_remove") /\ UNCHANGED errors
         ELSE IF out = "NotFound" THEN Goto(s, "volume_create") /\ UNCHANGED errors
         ELSE Raise(s, Err("volumes.get", "session", out))
    /\ UNCHANGED <<env, prog, eng, created, attempted, signalCalls, reloads>>

\* What volume.remove(force=True) can answer: NotFound when the volume has gone
\* since the get, 409 while a container uses the volume.
VolumeRemoveOutcomes ==
    IF ~ \E v \in volumes : v.name = VolumeName THEN {"NotFound"}
    ELSE IF \E c \in containers : VolumeName \in c.mounts THEN {"APIError"}
    ELSE EngineOutcomes

\* ensure_empty_volume_exists: volume.remove(force=True)
VolumeRemove(s) ==
    /\ At(s, "volume_remove")
    /\ \E out \in VolumeRemoveOutcomes :
         IF out = "ok"
         THEN /\ volumes' = {v \in volumes : v.name # VolumeName}
              /\ Goto(s, "volume_create")
              /\ UNCHANGED <<errors>>
         ELSE IF out = "NotFound"
         THEN /\ Goto(s, "volume_create")
              /\ UNCHANGED <<volumes, errors>>
         ELSE /\ Raise(s, Err("volume.remove", "session", out))
              /\ UNCHANGED <<volumes>>
    /\ UNCHANGED <<env, prog, networks, images, containers, files, logDir,
                   replayDir, created, attempted, signalCalls, reloads>>

\* ensure_empty_volume_exists: docker_client.volumes.create(name=volume_name)
\* (creating a name that exists answers with the existing volume)
VolumeCreate(s) ==
    /\ At(s, "volume_create")
    /\ \E out \in EngineOutcomes :
         IF out = "ok"
         THEN /\ IF \E v \in volumes : v.name = VolumeName
                 THEN UNCHANGED <<volumes, created>>
                 ELSE /\ volumes' = volumes \cup {[name |-> VolumeName, owner |-> s]}
                      /\ Created(s, VolumeName)
              /\ Goto(s, "replay_folder")
              /\ UNCHANGED <<errors>>
         ELSE /\ Raise(s, Err("volumes.create", "session", out))
              /\ UNCHANGED <<volumes, created>>
    /\ UNCHANGED <<env, prog, networks, images, containers, files, logDir,
                   replayDir, attempted, signalCalls, reloads>>

\* The clearing loop of the log folder takes the next name of its listing in
\* hand, or none when the name is no longer a file of the folder.
TakeInHand(l, f, present) == [todo |-> l.todo \ {f}, cur |-> IF f \in present THEN f ELSE <<>>]

\* The names of the sub-directories of a folder.
DirNames(d) == {x.name : x \in d.dirs}

\* start_server: ensure_empty_folder_exists(live_replay_folder):
\* if not os.path.exists(folder_full_path)
ReplayFolderExists(s) ==
    /\ At(s, "replay_folder")
    /\ Goto(s, IF replayDir.exists THEN "replay_listdir" ELSE "replay_makedirs")
    /\ UNCHANGED <<env, prog, eng, hist>>

\* os.makedirs(folder_full_path): refused when the folder has appeared since
ReplayMakedirs(s) ==
    /\ At(s, "replay_makedirs")
    /\ IF replayDir.exists
       THEN /\ Raise(s, Err("os.makedirs", "session", "FileExistsError"))
            /\ UNCHANGED <<replayDir>>
       ELSE /\ replayDir' = [exists |-> TRUE, files |-> {}, dirs |-> {}]
            /\ Goto(s, "server_run")
            /\ UNCHANGED <<errors>>
    /\ UNCHANGED <<env, prog, networks, images, containers, volumes, files, logDir,
                   created, attempted, signalCalls, reloads>>

\* for file_name in os.listdir(folder_full_path)
ReplayListdir(s) ==
    /\ At(s, "replay_listdir")
    /\ listing' = [listing EXCEPT ![s] = [todo |-> replayDir.files \cup DirNames(replayDir),
                                           cur |-> <<>>]]
    /\ Goto(s, "replay_isfile")
    /\ UNCHANGED <<env, network, server_container, server_image, client_containers,
                   client_images, status, k, eng, hist>>

\* the next file_name: if os.path.isfile(file_path)
ReplayIsFile(s) ==
    /\ At(s, "replay_isfile")
    /\ IF listing[s].todo = {}
       THEN /\ Goto(s, "server_run")
            /\ UNCHANGED <<listing>>
       ELSE \E f \in listing[s].todo :
              /\ listing' = [listing EXCEPT ![s] = [todo |-> @.todo \ {f}, cur |-> f]]
              /\ Goto(s, IF f \in replayDir.files THEN "replay_remove" ELSE "replay_isdir")
    /\ UNCHANGED <<env, network, server_container, server_image, client_containers,
                   client_images, status, k, eng, hist>>

\* elif os.path.isdir(file_path): a name that is neither (it has gone since
\* the listing) is passed over
ReplayIsDir(s) ==
    /\ At(s, "replay_isdir")
    /\ IF listing[s].cur \in DirNames(replayDir)
       THEN /\ Goto(s, "replay_rmtree")
            /\ UNCHANGED <<listing>>
       ELSE /\ listing' = [listing EXCEPT ![s].cur = <<>>]
            /\ Goto(s, "replay_isfile")
    /\ UNCHANGED <<env, network, server_container, server_image, client_containers,
                   client_images, status, k, eng, hist>>

\* shutil.rmtree(file_path), first half: the tree is opened and what is found
\* in it is deleted; FileNotFoundError when the tree has gone since isdir
ReplayRmtree(s) ==
    /\ At(s, "replay_rmtree")
    /\ IF listing[s].cur \in DirNames(replayDir)
       THEN /\ replayDir' = [replayDir EXCEPT !.dirs =
                                {IF x.name = listing[s].cur THEN [x EXCEPT !.full = FALSE] ELSE x
                                   : x \in @}]
            /\ Goto(s, "replay_rmdir")
            /\ UNCHANGED <<errors>>
       ELSE /\ Raise(s, Err("shutil.rmtree", "session", "FileNotFoundError"))
            /\ UNCHANGED <<replayDir>>
    /\ UNCHANGED <<env, prog, networks, images, containers, volumes, files, logDir,
                   created, attempted, signalCalls, reloads>>

\* shutil.rmtree(file_path), second half: os.rmdir of the emptied tree, which
\* fails when something was written into it since (OSError: directory not
\* empty) or when it has gone (FileNotFoundError)
ReplayRmdir(s) ==
    /\ At(s, "replay_rmdir")
    /\ IF [name |-> listing[s].cur, full |-> FALSE] \in replayDir.dirs
       THEN /\ replayDir' = [replayDir EXCEPT !.dirs = {x \in @ : x.name # listing[s].cur}]
            /\ listing' = [listing EXCEPT ![s].cur = <<>>]
            /\ Goto(s, "replay_isfile")
            /\ UNCHANGED <<errors>>
       ELSE /\ Raise(s, Err("shutil.rmtree", "session",
                            IF listing[s].cur \in DirNames(replayDir)
                            THEN "OSError" ELSE "FileNotFoundError"))
            /\ UNCHANGED <<replayDir, listing>>
    /\ UNCHANGED <<env, network, server_container, server_image, client_containers,
                   client_images, status, k, networks, images, containers, volumes,
                   files, logDir, created, attempted, signalCalls, reloads>>

\* os.remove(file_path): FileNotFoundError when the file has gone since isfile
ReplayRemove(s) ==
    /\ At(s, "replay_remove")
    /\ IF listing[s].cur \in replayDir.files
       THEN /\ replayDir' = [replayDir EXCEPT !.files = @ \ {listing[s].cur}]
            /\ listing' = [listing EXCEPT ![s].cur = <<>>]
            /\ Goto(s, "replay_isfile")
            /\ UNCHANGED <<errors>>
       ELSE /\ Raise(s, Err("os.remove", "session", "FileNotFoundError"))
            /\ UNCHANGED <<replayDir, listing>>
    /\ UNCHANGED <<env, network, server_container, server_image, client_containers,
                   client_images, status, k, networks, images, containers, volumes,
                   files, logDir, created, attempted, signalCalls, reloads>>

\* ports={container port: host port} if config.debug else None
ServerPorts(dbg) == IF dbg THEN {[container |-> 6000, host |-> 6000]} ELSE {}
\* Mutant: the clients' host ports are counted from the server's.
ClientPortsFromServerPort(dbg, client_index) ==
    IF dbg THEN {[container |-> 6000, host |-> 6000 + client_index]} ELSE {}
ClientPorts(dbg, client_index) ==
    IF dbg THEN {[container |-> 6000, host |-> 6001 + client_index]} ELSE {}

\* volumes={"cq-game-replay": {...}, live_replay_folder: {...}}: the named volume
\* the server's container uses (the engine creates it when it is missing).
ServerMounts == {VolumeName}
Mounted(vs, mounts, s) ==
    vs \cup {[name |-> n, owner |-> s] : n \in {m \in mounts : ~ \E v \in vs : v.name = m}}

\* containers.run(image, name=..., network=..., detach=True): create, then start.
\* A failure of the start leaves the created container behind.
RunOutcomes == {"ok"} \cup (IF faulty THEN {"APIError", "APIError at start"} ELSE {})
Run(cs, name, ports, mounts, s, out) ==
    IF out = "APIError" THEN cs
    ELSE cs \cup {[name |-> name, owner |-> s, net |-> network[s], ports |-> ports,
                   mounts |-> mounts,
                   st |-> IF out = "ok" THEN "running" ELSE "created"]}

\* start_server: docker_client.containers.run(server_image_name, ...); the
\* pair is assigned to server_container, server_image in run_game.
ServerRun(s) ==
    /\ At(s, "server_run")
    /\ \E out \in RunOutcomes :
         /\ containers' = Run(containers, ServerContainerName(s), ServerPorts(debug),
                               ServerMounts, s, out)
         /\ IF out = "APIError" THEN UNCHANGED <<created, volumes>>
            ELSE /\ volumes' = Mounted(volumes, ServerMounts, s)
                 /\ created' = [created EXCEPT ![s] =
                        @ \cup {ServerContainerName(s)}
                          \cup {v.name : v \in Mounted(volumes, ServerMounts, s) \ volumes}]
         /\ IF out = "ok"
            THEN /\ server_container' = [server_container EXCEPT ![s] = ServerContainerName(s)]
                 /\ server_image' = [server_image EXCEPT ![s] = ServerImageObject(s)]
                 /\ status' = [status EXCEPT ![s] = "created"]
                 /\ Goto(s, NextClientPc(0, clients[s]))
                 /\ UNCHANGED <<errors>>
            ELSE /\ Raise(s, Err("containers.run", "server", out))
                 /\ UNCHANGED <<server_container, server_image, status>>
    /\ UNCHANGED <<env, network, client_containers, client_images, k, listing, networks,
                   images, files, logDir, replayDir, attempted, signalCalls, reloads>>

\* Mutant: the loop swallows the exception and run_game goes on to the signal.
OnStartClientErrorSwallowed == "signal"
\* Nothing in run_game catches an exception of start_client.
OnStartClientError == Uncaught
RaiseClient(s, e) == Goto(s, OnStartClientError) /\ Log(s, e)

\* i of "for i, client in enumerate(clients)": the clients launched so far.
ClientIndex(s) == Len(client_containers[s])
\* Mutant: the roster is walked from its end.
ClientFromEnd(s) == clients[s][Len(clients[s]) - ClientIndex(s)]
Client(s) == clients[s][ClientIndex(s) + 1]

\* start_client: with open(config.client_docker_file, "w") as docker_file:
ClientOpenDockerfile(s) ==
    /\ At(s, "client_write")
    /\ files' = [files EXCEPT ![ConfigClientDockerFile] = s]
    /\ Goto(s, "client_args")
    /\ UNCHANGED <<env, prog, networks, images, containers, volumes, logDir,
                   replayDir, hist>>

\* start_client: with open("_temp_sidecar_args_file", "w") as temp_file: ...
\* (the recipe is then completed and closed)
ClientWriteArgsFile(s) ==
    /\ At(s, "client_args")
    /\ files' = [files EXCEPT ![TempSidecarArgsFile] = s]
    /\ Goto(s, "client_build")
    /\ UNCHANGED <<env, prog, networks, images, containers, volumes, logDir,
                   replayDir, hist>>

\* start_client: docker_client.images.build(dockerfile=config.client_docker_file,
\* tag=client_image_name)[0]; the recipe copies _temp_sidecar_args_file
ClientBuild(s) ==
    /\ At(s, "client_build")
    /\ \E out \in IF files[ConfigClientDockerFile] = None \/ files[TempSidecarArgsFile] = None
                  THEN {"APIError"} ELSE EngineOutcomes :
         IF out = "ok"
         THEN /\ images' = Build(images, ClientImageObject(ClientIndex(s), Client(s), s), s)
              /\ Created(s, ClientImageName(Client(s), s))
              /\ Goto(s, "client_rm")
              /\ UNCHANGED <<errors>>
         ELSE /\ RaiseClient(s, Err("images.build", ClientWho(ClientIndex(s)), out))
              /\ UNCHANGED <<images, created>>
    /\ UNCHANGED <<env, prog, networks, containers, volumes, files, logDir,
                   replayDir, attempted, signalCalls, reloads>>

\* start_client: os.remove("_temp_sidecar_args_file")
ClientRemoveArgsFile(s) ==
    /\ At(s, "client_rm")
    /\ IF files[TempSidecarArgsFile] = None
       THEN /\ RaiseClient(s, Err("os.remove", ClientWho(ClientIndex(s)), "FileNotFoundError"))
            /\ UNCHANGED <<files>>
       ELSE /\ files' = [files EXCEPT ![TempSidecarArgsFile] = None]
            /\ Goto(s, "client_rm_recipe")
            /\ UNCHANGED <<errors>>
    /\ UNCHANGED <<env, prog, networks, images, containers, volumes, logDir,
                   replayDir, created, attempted, signalCalls, reloads>>

\* start_client: os.remove("client_docker_file")
ClientRemoveDockerfile(s) ==
    /\ At(s, "client_rm_recipe")
    /\ IF files[ClientDockerFile] = None
       THEN /\ RaiseClient(s, Err("os.remove", ClientWho(ClientIndex(s)), "FileNotFoundError"))
            /\ UNCHANGED <<files>>
       ELSE /\ files' = [files EXCEPT ![ClientDockerFile] = None]
            /\ Goto(s, "client_run")
            /\ UNCHANGED <<errors>>
    /\ UNCHANGED <<env, prog, networks, images, containers, volumes, logDir,
                   replayDir, created, attempted, signalCalls, reloads>>

\* start_client: docker_client.containers.run(client_image_name, ...); run_game
\* appends the pair to client_containers and client_images.
ClientRun(s) ==
    /\ At(s, "client_run")
    /\ \E out \in RunOutcomes :
         LET i == ClientIndex(s)
             name == ClientContainerName(i, s)
         IN  /\ containers' = Run(containers, name, ClientPorts(debug, i), {}, s, out)
             /\ IF out = "APIError" THEN UNCHANGED created ELSE Created(s, name)
             /\ IF out = "ok"
                THEN /\ client_containers' = [client_containers EXCEPT ![s] = Append(@, name)]
                     /\ client_images' =
                            [client_images EXCEPT ![s] = Append(@, ClientImageObject(i, Client(s), s))]
                     /\ Goto(s, NextClientPc(i + 1, clients[s]))
                     /\ UNCHANGED <<errors>>
                ELSE /\ RaiseClient(s, Err("containers.run", ClientWho(i), out))
                     /\ UNCHANGED <<client_containers, client_images>>
    /\ UNCHANGED <<env, network, server_container, server_image, status, k, listing,
                   networks, images, volumes, files, logDir, replayDir, attempted,
                   signalCalls, reloads>>

\* ------------------------------------------- run_game: signal and the wait
\* send_game_started_signal_to_server(server_container): exec_run in the server
\* container; the engine refuses an exec in a container that is not running.
SendSignal(s) ==
    /\ At(s, "signal")
    /\ signalCalls' = [signalCalls EXCEPT ![s] = @ + 1]
    /\ \E out \in IF ServerRunning(s) THEN EngineOutcomes ELSE {"APIError"} :
         /\ Goto(s, AfterSignal(out))
         /\ IF out = "ok" THEN UNCHANGED errors
            ELSE Log(s, Err("exec_run", "server", out))
    /\ UNCHANGED <<env, prog, eng, created, attempted, reloads>>

\* server_container.reload(), before the loop
Reload(s) ==
    /\ At(s, "reload")
    /\ reloads' = [reloads EXCEPT ![s] = IF @ < MaxReloads THEN @ + 1 ELSE @]
    /\ \E out \in EngineOutcomes :
         IF out = "ok"
         THEN /\ status' = [status EXCEPT ![s] = ReloadedStatus(s)]
              /\ Goto(s, "while")
              /\ UNCHANGED <<errors>>
         ELSE /\ Raise(s, Err("reload", "server", out))
              /\ UNCHANGED <<status>>
    /\ UNCHANGED <<env, network, server_container, server_image,
                   client_containers, client_images, k, listing, eng, created, attempted,
                   signalCalls>>

\* while server_container.status == "running":
While(s) ==
    /\ At(s, "while")
    /\ Goto(s, WhileNext(status[s]))
    /\ UNCHANGED <<env, prog, eng, hist>>

\* time.sleep(config.check_game_has_finished_interval); server_container.reload()
SleepReload(s) ==
    /\ At(s, "sleep")
    /\ reloads' = [reloads EXCEPT ![s] = IF @ < MaxReloads THEN @ + 1 ELSE @]
    /\ \E out \in EngineOutcomes :
         IF out = "ok"
         THEN /\ status' = [status EXCEPT ![s] = ReloadedStatus(s)]
              /\ Goto(s, "while")
              /\ UNCHANGED <<errors>>
         ELSE /\ Raise(s, Err("reload", "server", out))
              /\ UNCHANGED <<status>>
    /\ UNCHANGED <<env, network, server_container, server_image,
                   client_containers, client_images, k, listing, eng, created, attempted,
                   signalCalls>>

\* time.sleep(...) is interrupted: the supervisor cancels the match (SIGINT ->
\* KeyboardInterrupt, or the exception of a signal handler).  Nothing in
\* run_game catches it and there is no finally.
Cancel(s) ==
    /\ At(s, "sleep")
    /\ Raise(s, Err("time.sleep", "session", "KeyboardInterrupt"))
    /\ UNCHANGED <<env, prog, eng, created, attempted, signalCalls, reloads>>

\* The server process ends (the match is over, or the server crashed).
ServerExits(s) ==
    /\ \E c \in containers :
         /\ c.name = ServerContainerName(s)
         /\ c.st = "running"
         /\ containers' = (containers \ {c}) \cup {[c EXCEPT !.st = "exited"]}
    /\ actor' = "engine"
    /\ UNCHANGED <<env, pc, prog, networks, images, volumes, files, logDir,
                   replayDir, hist>>

\* The server of a match writes into live_replay_files, the folder bound into
\* its container, when nothing it wrote is there: a replay file, or something
\* into a sub-directory of its own (which it makes when it is not there).
ServerWritesReplay(s) ==
    /\ replayDir.exists
    /\ \E c \in containers : c.name = ServerContainerName(s) /\ c.st = "running"
    /\ ReplayFileName(s) \notin replayDir.files
    /\ [name |-> ReplayDirName(s), full |-> TRUE] \notin replayDir.dirs
    /\ \/ replayDir' = [replayDir EXCEPT !.files = @ \cup {ReplayFileName(s)}]
       \/ replayDir' = [replayDir EXCEPT !.dirs =
                              {x \in @ : x.name # ReplayDirName(s)}
                                  \cup {[name |-> ReplayDirName(s), full |-> TRUE]}]
    /\ actor' = "engine"
    /\ UNCHANGED <<env, pc, prog, networks, images, containers, volumes, files, logDir, hist>>

\* A client's process ends (it crashed, gave up or finished) while run_game
\* waits for the server; an earlier exit shows the wait the same containers.
ClientExits(s) ==
    /\ s \in sessions /\ pc[s] \in {"reload", "while", "sleep"}
    /\ \E c \in containers :
         /\ c.owner = s
         /\ c.name # ServerContainerName(s)
         /\ c.st = "running"
         /\ containers' = (containers \ {c}) \cup {[c EXCEPT !.st = "exited"]}
    /\ actor' = "engine"
    /\ UNCHANGED <<env, pc, prog, networks, images, volumes, files, logDir,
                   replayDir, hist>>

\* ------------------------------------------------------ run_game: teardown
\* write_logs_and_remove_containers: if not os.path.exists(folder_path)
TdLogDir(s) ==
    /\ At(s, "td_logdir")
    /\ k' = [k EXCEPT ![s] = 1]
    /\ Goto(s, IF logDir.exists THEN "td_listdir" ELSE "td_makedirs")
    /\ UNCHANGED <<env, network, server_container, server_image, client_containers,
                   client_images, status, listing, eng, hist>>

\* os.makedirs(folder_path): refused when the folder has appeared since
TdMakedirs(s) ==
    /\ At(s, "td_makedirs")
    /\ IF logDir.exists
       THEN /\ Raise(s, Err("os.makedirs", "session", "FileExistsError"))
            /\ UNCHANGED <<logDir>>
       ELSE /\ logDir' = [exists |-> TRUE, files |-> {}]
            /\ Goto(s, "td_open")
            /\ UNCHANGED <<errors>>
    /\ UNCHANGED <<env, prog, networks, images, containers, volumes, files, replayDir,
                   created, attempted, signalCalls, reloads>>

\* for filename in os.listdir(folder_path)
TdListdir(s) ==
    /\ At(s, "td_listdir")
    /\ listing' = [listing EXCEPT ![s] = [todo |-> {f.name : f \in logDir.files}, cur |-> <<>>]]
    /\ Goto(s, "td_isfile")
    /\ UNCHANGED <<env, network, server_container, server_image, client_containers,
                   client_images, status, k, eng, hist>>

\* the next filename: if os.path.isfile(file_path)
TdIsFile(s) ==
    /\ At(s, "td_isfile")
    /\ IF listing[s].todo = {}
       THEN /\ Goto(s, "td_open")
            /\ UNCHANGED <<listing>>
       ELSE \E n \in listing[s].todo :
              LET present == {f.name : f \in logDir.files}
              IN  /\ listing' = [listing EXCEPT ![s] = TakeInHand(@, n, present)]
                  /\ Goto(s, IF n \in present THEN "td_unlink" ELSE "td_isfile")
    /\ UNCHANGED <<env, network, server_container, server_image, client_containers,
                   client_images, status, k, eng, hist>>

\* os.remove(file_path): FileNotFoundError when the file has gone since isfile
TdUnlink(s) ==
    /\ At(s, "td_unlink")
    /\ IF \E f \in logDir.files : f.name = listing[s].cur
       THEN /\ logDir' = [logDir EXCEPT !.files = {f \in @ : f.name # listing[s].cur}]
            /\ listing' = [listing EXCEPT ![s].cur = <<>>]
            /\ Goto(s, "td_isfile")
            /\ UNCHANGED <<errors>>
       ELSE /\ Raise(s, Err("os.remove", "session", "FileNotFoundError"))
            /\ UNCHANGED <<logDir, listing>>
    /\ UNCHANGED <<env, network, server_container, server_image, client_containers,
                   client_images, status, k, networks, images, containers, volumes,
                   files, replayDir, created, attempted, signalCalls, reloads>>

\* The participant a position of the teardown lists stands for.
TdWho(j) == IF j = 1 THEN "server" ELSE ClientWho(j - 2)

\* with open(os.path.join(folder_path, container.name), "w") as f:
\* the file is created, or emptied when it exists.
TdOpenLog(s) ==
    /\ At(s, "td_open")
    /\ logDir' = [logDir EXCEPT !.files =
                     {f \in @ : f.name # TdContainers(s)[k[s]]}
                         \cup {[name |-> TdContainers(s)[k[s]], owner |-> s, captured |-> FALSE]}]
    /\ Goto(s, "td_logs")
    /\ UNCHANGED <<env, prog, networks, images, containers, volumes, files,
                   replayDir, hist>>

\* container.logs().decode("utf-8"): the engine's answer, or the bytes it
\* returned are not UTF-8.
LogsOutcomes(name) ==
    ContainerOutcomes(name)
        \cup (IF faulty /\ \E c \in containers : c.name = name
              THEN {"UnicodeDecodeError"} ELSE {})

\* try: f.write(container.logs().decode("utf-8")) except APIError: log(...)
\* (the write lands in the file opened, in the folder or removed from it since)
TdLogs(s) ==
    /\ At(s, "td_logs")
    /\ \E out \in LogsOutcomes(TdContainers(s)[k[s]]) :
         /\ logDir' = [logDir EXCEPT !.files =
                          {IF f.name = TdContainers(s)[k[s]] /\ f.owner = s /\ out = "ok"
                           THEN [f EXCEPT !.captured = TRUE] ELSE f : f \in @}]
         /\ IF out = "ok" THEN Goto(s, "td_remove") /\ UNCHANGED errors
            ELSE IF ContainerErrorCaught(out)
            THEN Goto(s, "td_remove") /\ Log(s, Err("container.logs", TdWho(k[s]), out))
            ELSE Raise(s, Err("container.logs", TdWho(k[s]), out))
    /\ UNCHANGED <<env, prog, networks, images, containers, volumes, files,
                   replayDir, created, attempted, signalCalls, reloads>>

\* try: container.remove(force=True) except APIError: log(...)
TdRemove(s) ==
    /\ At(s, "td_remove")
    /\ Attempt(s, TdContainers(s)[k[s]])
    /\ \E out \in ContainerOutcomes(TdContainers(s)[k[s]]) :
         /\ IF out = "ok"
            THEN /\ containers' = {c \in containers : c.name # TdContainers(s)[k[s]]}
                 /\ UNCHANGED <<errors>>
            ELSE /\ Log(s, Err("container.remove", TdWho(k[s]), out))
                 /\ UNCHANGED <<containers>>
         /\ IF out = "ok" \/ ContainerErrorCaught(out)
            THEN /\ Goto(s, AfterContainer(k[s], Len(TdContainers(s))))
                 /\ k' = [k EXCEPT ![s] = IF @ < Len(TdContainers(s)) THEN @ + 1 ELSE 1]
            ELSE /\ Goto(s, Uncaught)
                 /\ UNCHANGED k
    /\ UNCHANGED <<env, network, server_container, server_image, client_containers,
                   client_images, status, listing, networks, images, volumes,
                   files, logDir, replayDir, created, signalCalls, reloads>>

\* remove_images: try: docker_client.images.remove(image.id, force=True)
\*                except ImageNotFound: pass
TdImage(s) ==
    /\ At(s, "td_images")
    /\ Attempt(s, TdImages(s)[k[s]].tag)
    /\ \E out \in IF \E x \in images : x.id = TdImages(s)[k[s]].id
                  THEN EngineOutcomes ELSE {"ImageNotFound"} \cup EngineFailures :
         IF out = "ok" \/ ImageRemoveCaught(out)
         THEN /\ images' = {x \in images : x.id # TdImages(s)[k[s]].id}
              /\ Goto(s, AfterImage(k[s], Len(TdImages(s))))
              /\ k' = [k EXCEPT ![s] = IF @ < Len(TdImages(s)) THEN @ + 1 ELSE 1]
              /\ UNCHANGED <<errors>>
         ELSE /\ Raise(s, Err("images.remove", TdWho(k[s]), out))
              /\ UNCHANGED <<images, k>>
    /\ UNCHANGED <<env, network, server_container, server_image, client_containers,
                   client_images, status, listing, networks, containers, volumes,
                   files, logDir, replayDir, created, signalCalls, reloads>>

\* network.remove(): the engine refuses while a container is still attached,
\* and answers NotFound when the network is gone.
TdNetwork(s) ==
    /\ At(s, "td_network")
    /\ Attempt(s, network[s])
    /\ \E out \in NetworkOutcomes(network[s]) :
         IF out = "ok"
         THEN /\ networks' = {n \in networks : n.name # network[s]}
              /\ Goto(s, "done")
              /\ UNCHANGED <<errors>>
         ELSE /\ Raise(s, Err("network.remove", "session", out))
              /\ UNCHANGED <<networks>>
    /\ UNCHANGED <<env, prog, images, containers, volumes, files, logDir,
                   replayDir, created, signalCalls, reloads>>

\* Somebody else removes a resource of a session that is tearing down (an
\* operator's docker rm -f, docker rmi -f or docker network rm, a prune job):
\* the session's next call on it finds it gone.  One such removal per session.
RemovedOutside(s) ==
    /\ s \in sessions
    /\ pc[s] \in {"td_logdir", "td_makedirs", "td_listdir", "td_isfile", "td_unlink",
                 "td_open", "td_logs", "td_remove", "td_images", "td_network"}
    /\ intact[s]
    /\ intact' = [intact EXCEPT ![s] = FALSE]
    /\ \/ \E c \in containers :
            /\ c.owner = s
            /\ containers' = containers \ {c}
            /\ UNCHANGED <<images, networks>>
       \/ \E x \in images :
            /\ x.owner = s
            /\ images' = images \ {x}
            /\ UNCHANGED <<containers, networks>>
       \/ \E n \in networks :
            /\ n.owner = s
            /\ ~ \E c \in containers : c.net = n.name
            /\ networks' = networks \ {n}
            /\ UNCHANGED <<containers, images>>
    /\ actor' = "engine"
    /\ UNCHANGED <<sessions, clients, faulty, debug, pc, prog, volumes, files, logDir,
                   replayDir, hist>>

\* ------------------------------------------------------------------- Next
\* One statement of session s's run_game.
Session(s) ==
    \/ CreateNetwork(s)
    \/ ServerWriteDockerfile(s)
    \/ ServerBuild(s)
    \/ ServerRemoveDockerfile(s)
    \/ VolumeGet(s)
    \/ VolumeRemove(s)
    \/ VolumeCreate(s)
    \/ ReplayFolderExists(s)
    \/ ReplayMakedirs(s)
    \/ ReplayListdir(s)
    \/ ReplayIsFile(s)
    \/ ReplayRemove(s)
    \/ ReplayIsDir(s)
    \/ ReplayRmtree(s)
    \/ ReplayRmdir(s)
    \/ ServerRun(s)
    \/ ClientOpenDockerfile(s)
    \/ ClientWriteArgsFile(s)
    \/ ClientBuild(s)
    \/ ClientRemoveArgsFile(s)
    \/ ClientRemoveDockerfile(s)
    \/ ClientRun(s)
    \/ SendSignal(s)
    \/ Reload(s)
    \/ While(s)
    \/ SleepReload(s)
    \/ TdLogDir(s)
    \/ TdMakedirs(s)
    \/ TdListdir(s)
    \/ TdIsFile(s)
    \/ TdUnlink(s)
    \/ TdOpenLog(s)
    \/ TdLogs(s)
    \/ TdRemove(s)
    \/ TdImage(s)
    \/ TdNetwork(s)

\* A step of the host: a statement of a session, the exit of its server, or
\* its supervisor's interrupt.
Next == \E s \in Tokens : Session(s) \/ ServerExits(s) \/ Cancel(s)
\* The sessions left alone by their supervisors: only their servers act.
NextConc == \E s \in Tokens : Session(s) \/ ServerExits(s) \/ ServerWritesReplay(s)
\* The clients' processes may end during the wait as well.
NextClients == \E s \in Tokens : Session(s) \/ ServerExits(s) \/ Cancel(s) \/ ClientExits(s)
\* Other users of the engine may remove what a session is tearing down.
NextOutside == \E s \in Tokens : Session(s) \/ ServerExits(s) \/ Cancel(s) \/ RemovedOutside(s)

\* One run_game call on the host.
Spec == Init /\ [][Next]_vars
\* The same, with the control thread of run_game never stopping between two
\* statements (the server is still free never to exit).
SpecFair == Spec /\ \A s \in Tokens : WF_vars(Session(s))
\* Two run_game calls with different game_secrets, same host and directory.
SpecConc == InitConc /\ [][NextConc]_vars
\* One run_game call whose clients may stop while it waits for the server.
SpecClients == Init /\ [][NextClients]_vars
\* One run_game call on an engine that others use too.
SpecOutside == Init /\ [][NextOutside]_vars

\* ================================================================ claims
\* Statements of run_game by phase.
BuildUpPcs == {"create_network", "server_write", "server_build", "server_rm", "volume_get",
               "volume_remove", "volume_create", "replay_folder", "replay_makedirs",
               "replay_listdir", "replay_isfile", "replay_remove", "replay_isdir",
               "replay_rmtree", "replay_rmdir", "server_run",
               "client_write", "client_args", "client_build", "client_rm",
               "client_rm_recipe", "client_run", "signal"}
WaitPcs == {"reload", "while", "sleep"}
TeardownPcs == {"td_logdir", "td_makedirs", "td_listdir", "td_isfile", "td_unlink", "td_open",
                "td_logs", "td_remove", "td_images", "td_network"}

\* Calls made while building up: the server's and the clients' build and launch.
StartOps == {"images.build", "os.remove", "containers.run"}
ClientStartFailed(s, i) ==
    \E e \in errors[s] : e.op \in StartOps /\ e.who = ClientWho(i)
SignalFailed(s) == \E e \in errors[s] : e.op = "exec_run"

\* Names of the containers and image tags a session can create.
ContainerNames(s) ==
    {ServerContainerName(s)} \cup {ClientContainerName(i, s) : i \in 0..(MaxClients + 1)}
ImageNames(s) == {ServerImageName(s)} \cup {ClientImageName(c, s) : c \in ClientIds}
\* What teardown is to remove: the containers, the images and the network.
TeardownScope(s) == created[s] \cap (ContainerNames(s) \cup ImageNames(s) \cup {NetworkName(s)})

\* C1: whenever run_game has ended and the network had been created, removal
\* has been attempted for every container and image the session created and
\* for the network (teardown ran, whatever ended the session).
C1_TeardownAlwaysRuns ==
    \A s \in sessions :
        (Ended(s) /\ NetworkName(s) \in created[s]) => TeardownScope(s) \subseteq attempted[s]

\* C2: once the build or launch of client i has failed, the start signal is
\* never sent, the wait is never entered, and no client with a larger index is
\* built or launched.
C2_AllOrNothingRoster ==
    \A s \in sessions : \A i \in 0..(MaxClients + 1) :
        ClientStartFailed(s, i) =>
            /\ signalCalls[s] = 0
            /\ reloads[s] = 0
            /\ pc[s] \notin {"signal"} \cup WaitPcs
            /\ Len(client_containers[s]) <= i
            /\ \A j \in (i + 1)..(MaxClients + 1) :
                 /\ ClientContainerName(j, s) \notin created[s]
                 /\ ~ \E x \in images : x.id = ClientImageObject(j, "a", s).id

\* C2 witness: the first client of a roster of two failed to build or launch.
C2_Witness ==
    \E s \in sessions : ClientStartFailed(s, 0) /\ Len(clients[s]) = 2 /\ Ended(s)

\* The steps of teardown that can fail.
TeardownOps == {"container.logs", "container.remove", "images.remove", "network.remove"}

\* C3: once teardown has started, the failure of a single step of it (the only
\* failure of the run) does not keep run_game from ending without raising and
\* with a removal attempt made for every container, every image and the
\* network.
C3_TeardownContinuesPastErrors ==
    \A s \in sessions :
        (/\ Ended(s)
         /\ attempted[s] # {}
         /\ Cardinality(errors[s]) <= 1
         /\ \A e \in errors[s] : e.op \in TeardownOps) =>
            /\ pc[s] = "done"
            /\ Range(TdContainers(s)) \subseteq attempted[s]
            /\ {x.tag : x \in Range(TdImages(s))} \subseteq attempted[s]
            /\ network[s] \in attempted[s]

\* What exists on the host that session o created: engine resources, staged
\* files and captured logs.
Owned(o) ==
    {<<"network", n.name>> : n \in {x \in networks : x.owner = o}}
        \cup {<<"image", x.id, x.tag>> : x \in {y \in images : y.owner = o}}
        \cup {<<"container", c.name>> : c \in {x \in containers : x.owner = o}}
        \cup {<<"volume", v.name>> : v \in {x \in volumes : x.owner = o}}
        \cup {<<"file", f>> : f \in {g \in FileNames : files[g] = o}}
        \cup {<<"log", l.name>> : l \in {x \in logDir.files : x.owner = o}}
        \cup {<<"replay", f>> : f \in replayDir.files \cap {ReplayFileName(o)}}
        \cup {<<"replay", d.name, d.full>> : d \in {x \in replayDir.dirs : x.name = ReplayDirName(o)}}

\* C4: no step of one session overwrites, empties or removes anything another
\* session created and has not yet torn down.
C4_NoCrossSessionInterference ==
    [][\A o \in sessions :
          (actor' \in sessions \ {o} /\ ~Ended(o)) => Owned(o) \subseteq Owned(o)']_vars

\* C5: the name of every engine resource a session created contains the
\* session's token.
C5_NamesContainToken ==
    \A s \in sessions : \A n \in created[s] : Contains(n, s)

\* C6: a container exists only in a network its session created before, and
\* the removal of the network is attempted only after the removal of every
\* container the session created has been attempted.
C6_NetworkInstanceOrdering ==
    \A s \in sessions :
        /\ \A c \in containers :
             c.owner = s => (c.net = NetworkName(s) /\ NetworkName(s) \in created[s])
        /\ (created[s] \cap ContainerNames(s)) # {} => NetworkName(s) \in created[s]
        /\ NetworkName(s) \in attempted[s] =>
             (created[s] \cap ContainerNames(s)) \subseteq attempted[s]

\* C6 witness: the network's removal was attempted in a session that launched
\* a server and two clients.
C6_Witness ==
    \E s \in sessions : NetworkName(s) \in attempted[s] /\ Len(client_containers[s]) = 2

\* No call of the build-up (network, builds, launches, volume) has failed.
NoStartError(s) ==
    ~ \E e \in errors[s] :
        e.op \in StartOps \cup {"networks.create", "volumes.get", "volume.remove",
                                "volumes.create", "os.makedirs", "shutil.rmtree"}

\* C7: the start signal is sent at most once, only when the server and all N
\* clients have been launched, and a session whose build-up did not fail has
\* sent it exactly once when it is past the signal.
C7_SignalOnceAfterAllLaunched ==
    \A s \in sessions :
        /\ signalCalls[s] <= 1
        /\ signalCalls[s] >= 1 =>
             /\ server_container[s] = ServerContainerName(s)
             /\ ServerContainerName(s) \in created[s]
             /\ Len(client_containers[s]) = Len(clients[s])
             /\ \A i \in 0..(Len(clients[s]) - 1) : ClientContainerName(i, s) \in created[s]
        /\ (Len(client_containers[s]) < Len(clients[s]) \/ server_container[s] = NoName) =>
             signalCalls[s] = 0
        /\ (pc[s] \notin BuildUpPcs /\ NoStartError(s)) => signalCalls[s] = 1

\* C7 witness: a session with two clients ran to its end and sent the signal.
C7_Witness ==
    \E s \in sessions : signalCalls[s] = 1 /\ Len(clients[s]) = 2 /\ pc[s] = "done"

\* What of session s is left in the engine.
Leftover(s) ==
    {n.name : n \in {x \in networks : x.owner = s}}
        \cup {x.tag : x \in {y \in images : y.owner = s}}
        \cup {c.name : c \in {x \in containers : x.owner = s}}
        \cup {v.name : v \in {x \in volumes : x.owner = s}}

\* C8: a session that ran to its end without any engine failure has removed
\* everything it created: N+1 containers, N+1 images, the network, and it
\* leaves no other engine resource of its own behind.
C8_FullReclamation ==
    \A s \in sessions :
        (pc[s] = "done" /\ errors[s] = {}) =>
            /\ Cardinality(attempted[s] \cap ContainerNames(s)) = Len(clients[s]) + 1
            /\ Len(TdImages(s)) = Len(clients[s]) + 1
            /\ NetworkName(s) \in attempted[s]
            /\ Leftover(s) = {}

\* The exec of the start signal succeeded.
SignalSucceeded(s) == signalCalls[s] = 1 /\ ~SignalFailed(s)

\* C9 (state part): after a successful signal, teardown is entered only with a
\* refreshed server state other than "running".
C9_NoEarlyTeardown ==
    \A s \in sessions :
        (SignalSucceeded(s) /\ pc[s] \in TeardownPcs \cup {"done"}) =>
            (reloads[s] >= 1 /\ status[s] # "running")

\* C9 (step part): the loop test keeps waiting while the refreshed state is
\* "running" and goes to teardown as soon as it is anything else.
C9_ExactStep ==
    \A s \in sessions :
        (pc[s] = "while" /\ pc'[s] # pc[s]) =>
            pc'[s] = IF status[s] = "running" THEN "sleep" ELSE "td_logdir"

\* C9: after a successful start signal teardown does not begin while the
\* server's refreshed state is "running", and once a refresh has shown another
\* state (at the first refresh or after any number of polls) the wait ends and
\* teardown begins.
C9_CompletionWatcherExact ==
    /\ []C9_NoEarlyTeardown
    /\ [][C9_ExactStep]_vars
    /\ \A s \in Tokens :
         (s \in sessions /\ pc[s] = "while" /\ status[s] # "running") ~> (pc[s] = "td_logdir")

\* C9 witness: teardown begins after the server's state flipped at a poll of
\* the loop (not at the first refresh).
C9_Witness ==
    \E s \in sessions :
        /\ pc[s] = "td_logdir" /\ SignalSucceeded(s)
        /\ reloads[s] >= 2 /\ status[s] = "exited"

\* C10: when the exec of the start signal fails, no refresh of the server
\* state is ever made and the session is in teardown, which is handed the
\* server, every client, every image and the network; when teardown runs to
\* its end the removal of every container, every image and the network has
\* been attempted (run_game can then raise only inside teardown: from a log
\* that is not UTF-8, or a failing image or network removal).
C10_SignalFailureSkipsWait ==
    \A s \in sessions :
        SignalFailed(s) =>
            /\ reloads[s] = 0 /\ status[s] = "created"
            /\ pc[s] \in TeardownPcs \cup {"done", "raised"}
            /\ pc[s] = "raised" =>
                 \E e \in errors[s] : e.op \in {"container.logs", "images.remove", "network.remove"}
            /\ Len(TdContainers(s)) = Len(clients[s]) + 1
            /\ Len(TdImages(s)) = Len(clients[s]) + 1
            /\ network[s] = NetworkName(s)
            /\ pc[s] = "done" =>
                 /\ Range(TdContainers(s)) \subseteq attempted[s]
                 /\ ({x.tag : x \in Range(TdImages(s))} \cup {network[s]}) \subseteq attempted[s]

\* C10 witness: the signal failed in a session with two clients, which then
\* ran teardown to its end.
C10_Witness ==
    \E s \in sessions : SignalFailed(s) /\ Len(clients[s]) = 2 /\ pc[s] = "done"

\* The wait of session s was cancelled.
Cancelled(s) == \E e \in errors[s] : e.op = "time.sleep"

\* C11: once the wait of a session has been cancelled while the server was
\* running, the session stops polling and ends with a removal attempt made for
\* every container, every image and the network.
C11_CancellationStillTearsDown ==
    \A s \in sessions :
        Cancelled(s) =>
            /\ pc[s] \in TeardownPcs \cup {"done", "raised"}
            /\ Ended(s) => TeardownScope(s) \subseteq attempted[s]

\* The removals of teardown.
RemovalOps == {"container.remove", "images.remove", "network.remove"}

\* C12: a removal that finds its container, image or network already gone
\* (the engine answers not-found) does not raise and is not recorded as a
\* failure: a run in which nothing else failed has no failure recorded and
\* has not raised.
C12_AlreadyGoneIsSuccess ==
    \A s \in sessions :
        (\A e \in errors[s] : e.op \in RemovalOps /\ e.err \in {"NotFound", "ImageNotFound"}) =>
            (errors[s] = {} /\ pc[s] # "raised")

\* The build of the client with launch index i failed.
ClientBuildFailed(s, i) ==
    \E e \in errors[s] : e.op = "images.build" /\ e.who = ClientWho(i)

\* C13: when the build of the second client fails, run_game does not raise,
\* and it ends with a removal attempt made for the server container, the
\* first client's container and image, and the network.
C13_BuildFailureContained ==
    \A s \in sessions :
        ClientBuildFailed(s, 1) =>
            /\ pc[s] # "raised"
            /\ Ended(s) =>
                 {ServerContainerName(s), ClientContainerName(0, s),
                  ClientImageName(clients[s][1], s), NetworkName(s)} \subseteq attempted[s]

\* C14: outside the build call itself, no staged file of a session exists:
\* the recipe file of the server and the recipe and argument files of a
\* client are gone once the build has returned, whether it succeeded or failed.
C14_StagedFilesRemoved ==
    \A s \in sessions :
        /\ pc[s] \notin {"server_build", "server_rm"} => files[ServerDockerFile] # s
        /\ pc[s] \notin {"client_args", "client_build", "client_rm", "client_rm_recipe"} =>
             files[ClientDockerFile] # s
        /\ pc[s] \notin {"client_build", "client_rm"} => files[TempSidecarArgsFile] # s

\* C15: in debug mode the server's container publishes its port 6000 on host
\* port 6000 and the client with launch index i publishes its port 6000 on
\* host port 6001 + i, so that no two containers of a session share a host
\* port; outside debug mode no container publishes a port.
C15_DebugPortMapping ==
    \A s \in sessions :
        /\ \A c \in containers :
             c.owner = s =>
                 IF debug
                 THEN /\ c.name = ServerContainerName(s) =>
                           c.ports = {[container |-> 6000, host |-> 6000]}
                      /\ \A i \in 0..MaxClients :
                           c.name = ClientContainerName(i, s) =>
                               c.ports = {[container |-> 6000, host |-> 6001 + i]}
                      /\ c.ports # {}
                 ELSE c.ports = {}
        /\ \A c, d \in containers :
             (c.owner = s /\ d.owner = s /\ c # d) =>
                 {p.host : p \in c.ports} \cap {p.host : p \in d.ports} = {}

\* C15 witness: a debug session with the server and two clients launched.
C15_Witness ==
    \E s \in sessions :
        /\ debug /\ Len(client_containers[s]) = 2
        /\ Cardinality({c \in containers : c.owner = s /\ c.ports # {}}) = 3

\* The containers of a session in the order of their launch: the server, then
\* the clients by launch index.
LaunchOrder(s) ==
    <<ServerContainerName(s)>>
        \o [i \in 1..Len(client_containers[s]) |-> ClientContainerName(i - 1, s)]
\* The log file of container n has been written by session s.
Logged(s, n) == \E f \in logDir.files : f.name = n /\ f.owner = s

\* C16: teardown empties or creates the log directory before anything else;
\* a container's removal is attempted only after its log capture, and its log
\* capture only after the removal attempt of every container launched before
\* it (server first); an image's removal is attempted only after every
\* container has been processed, and the network's only after every image's.
C16_TeardownOrder ==
    \A s \in sessions :
        LET order == LaunchOrder(s)
        IN  /\ (attempted[s] # {} \/ \E f \in logDir.files : f.owner = s) =>
                 /\ logDir.exists
                 /\ \A f \in logDir.files : f.owner = s
                 /\ TdContainers(s) = order
            /\ \A j \in 1..Len(order) :
                 /\ order[j] \in attempted[s] => Logged(s, order[j])
                 /\ Logged(s, order[j]) => \A i \in 1..(j - 1) : order[i] \in attempted[s]
            /\ (attempted[s] \cap ImageNames(s)) # {} =>
                 \A j \in 1..Len(order) : Logged(s, order[j]) /\ order[j] \in attempted[s]
            /\ NetworkName(s) \in attempted[s] =>
                 {x.tag : x \in Range(TdImages(s))} \subseteq attempted[s]

\* C16 witness: teardown reached the network in a session with two clients
\* on a host where an earlier match had left its logs.
C16_Witness ==
    \E s \in sessions :
        /\ NetworkName(s) \in attempted[s] /\ volumes # {}
        /\ Cardinality({f \in logDir.files : f.owner = s}) = 3

\* The engine answered the call for the container at position j with an error.
EngineErrors == {"APIError", "NotFound"}
LogsFailed(s, j) ==
    \E e \in errors[s] : e.op = "container.logs" /\ e.who = TdWho(j) /\ e.err \in EngineErrors
RemoveFailed(s, j) ==
    \E e \in errors[s] : e.op = "container.remove" /\ e.who = TdWho(j) /\ e.err \in EngineErrors

\* C17: a container whose log retrieval failed with an engine error has its
\* removal attempted as the next step; and once the removal of a container
\* has failed with an engine error the loop goes on to the containers after
\* it, so that run_game ends only with a log file written and a removal
\* attempt made for every later container of the list.
C17_PerContainerTolerance ==
    \A s \in sessions :
        \A j \in 1..Len(TdContainers(s)) :
            /\ LogsFailed(s, j) =>
                 \/ pc[s] = "td_remove" /\ k[s] = j
                 \/ TdContainers(s)[j] \in attempted[s]
            /\ RemoveFailed(s, j) =>
                 /\ pc[s] \in TeardownPcs \cup {"done", "raised"}
                 /\ pc[s] \in {"td_open", "td_logs", "td_remove"} => k[s] > j
                 /\ Ended(s) =>
                      \A i \in (j + 1)..Len(TdContainers(s)) :
                          Logged(s, TdContainers(s)[i]) /\ TdContainers(s)[i] \in attempted[s]

\* A client container of session s is not running any more.
ClientStopped(s, i) ==
    \E c \in containers : c.name = ClientContainerName(i, s) /\ c.st = "exited"

\* C18 (state part): after a successful signal, teardown begins only once the
\* server's container has stopped running, whatever the clients did.
C18_TeardownOnlyAfterServer ==
    \A s \in sessions :
        (SignalSucceeded(s) /\ pc[s] \in TeardownPcs \cup {"done"}) =>
            ActualStatus(ServerContainerName(s)) # "running"

\* C18 (step part): a step that changes a container's state while the session
\* waits leaves the session where it is; the state a refresh loads is the
\* server container's; the wait is left for teardown only from the loop test.
C18_WaitReadsServerOnly ==
    \A s \in sessions :
        /\ (pc[s] \in WaitPcs /\ containers' # containers) =>
             (pc'[s] = pc[s] /\ status'[s] = status[s])
        /\ (pc[s] \in {"reload", "sleep"} /\ pc'[s] = "while") =>
             status'[s] = ActualStatus(ServerContainerName(s))
        /\ (pc[s] \in WaitPcs /\ pc'[s] \in TeardownPcs) =>
             (pc[s] = "while" /\ status[s] # "running")

\* C18: while a session waits, the exit of its clients neither ends the wait
\* nor starts teardown: the wait ends only on the state of the server's
\* container, the only state read between the signal and teardown.
C18_ServerAloneDecides ==
    /\ []C18_TeardownOnlyAfterServer
    /\ [][C18_WaitReadsServerOnly]_vars

\* C18 witness: both clients have exited and the session, having polled the
\* server again, is still waiting.
C18_Witness ==
    \E s \in sessions :
        /\ pc[s] = "sleep" /\ reloads[s] >= 2 /\ status[s] = "running"
        /\ Len(client_containers[s]) = 2
        /\ ClientStopped(s, 0) /\ ClientStopped(s, 1)

\* C19: in a session the tags of the images built for the server and the
\* clients are pairwise distinct and so are the names of the containers, and
\* no image of the session has lost its tag to a later build, whatever the
\* roster (two entries with the same client id included).
C19_UniqueNamesInSession ==
    \A s \in sessions :
        /\ \A i, j \in 1..Len(TdImages(s)) :
             i # j => TdImages(s)[i].tag # TdImages(s)[j].tag
        /\ \A i, j \in 1..Len(TdContainers(s)) :
             i # j => TdContainers(s)[i] # TdContainers(s)[j]
        /\ \A x \in images : x.owner = s => x.tag # NoTag

\* The build-up statements of start_client.
ClientPcs == {"client_write", "client_args", "client_build", "client_rm", "client_rm_recipe",
              "client_run"}
\* The image built with launch index j is in the engine.
ClientImageBuilt(s, j) == \E x \in images : x.id = ClientImageObject(j, "a", s).id

\* C20: no client is built before the server has been built and launched;
\* the launched clients are the first n entries of the roster, entry i having
\* got launch index i (container name) and its own image; and nothing is built
\* or launched for index j before the clients 0..j-1 have been launched.
C20_RosterOrderBuildUp ==
    \A s \in sessions :
        LET n == Len(client_containers[s])
        IN  /\ n <= Len(clients[s]) /\ Len(client_images[s]) = n
            /\ \A i \in 1..n :
                 /\ client_containers[s][i] = ClientContainerName(i - 1, s)
                 /\ client_containers[s][i] \in created[s]
                 /\ client_images[s][i].tag = ClientImageName(clients[s][i], s)
                 /\ client_images[s][i].id = <<"image", ToString(i - 1), s>>
            /\ \A j \in 0..(MaxClients + 1) :
                 (ClientImageBuilt(s, j) \/ ClientContainerName(j, s) \in created[s]) =>
                     /\ j < Len(clients[s]) /\ j <= n
                     /\ server_container[s] = ServerContainerName(s)
                     /\ {ServerImageName(s), ServerContainerName(s)} \subseteq created[s]
            /\ pc[s] \in ClientPcs =>
                 /\ server_container[s] = ServerContainerName(s) /\ n < Len(clients[s])
                 /\ \A j \in (n + 1)..(MaxClients + 1) :
                      ~ClientImageBuilt(s, j) /\ ClientContainerName(j, s) \notin created[s]

\* C20 witness: the server and both clients of the roster a, b are launched.
C20_Witness ==
    \E s \in sessions :
        clients[s] = <<"a", "b">> /\ Len(client_containers[s]) = 2 /\ pc[s] = "signal"
====
